---- MODULE Spec2Model ----
(***************************************************************************)
(* A model of wibarab_geojson_varieties.py: the conversion of the WIBARAB  *)
(* feature corpus into one GeoJSON document.                               *)
(*                                                                         *)
(* Strings the code takes apart (split, replace, startswith, lstrip, sort) *)
(* are sequences of characters, so that these operations are computed and  *)
(* not assumed; the two directory paths are written with their runs of     *)
(* characters that no operation looks for as one element each.  Strings    *)
(* the code only copies or compares for equality (titles, labels, roles,   *)
(* feature ids) are TLA+ strings.                                          *)
(* A Python dict is a function; where its insertion order is used, the     *)
(* order of its keys is kept beside it as a sequence.                      *)
(***************************************************************************)
EXTENDS Integers, Sequences, FiniteSets, TLC

VARIABLES
    pc,                 \* position in main()
    features_dir,       \* os.listdir(features_path), in listing order
    profiles_dir,       \* os.listdir(profiles_path), in listing order
    geo_doc,            \* the geographic document
    bibl_data,          \* the bibliography table
    pers_doc,           \* the person-group document
    pers_data,          \* main's pers_data: the person-group table
    documents,          \* main's documents: loaded feature files, insertion order
    profiles,           \* main's profiles: loaded profile files, insertion order
    processing_errors,  \* main's processing_errors
    variety_title,      \* main's variety_title
    places,             \* main's places
    ft_name_dict,       \* main's ft_name_dict: [keys: Seq, val: function]
    parent_categories,  \* main's parent_categories
    geo_features,       \* main's geo_features / enriched_features
    f_names_count,      \* main's f_names_count
    column_headings,    \* main's column_headings
    geojson,            \* what write_geojson received, or NotWritten
    reported,           \* the errors printed at the end of main
    warnings,           \* the warning lines printed so far
    exception           \* the exception that ended main, or "none"

vars == <<pc, features_dir, profiles_dir, geo_doc, bibl_data, pers_doc, pers_data,
          documents, profiles, processing_errors, variety_title, places,
          ft_name_dict, parent_categories, geo_features, f_names_count,
          column_headings, geojson, reported, warnings, exception>>

(***************************************************************************)
(* Bounds of the model.                                                     *)
(***************************************************************************)
\* longest run of separator characters between two coordinates
MaxSep == 2
\* most files in the feature directory
MaxFiles == 2
\* most observations in a feature document
MaxFvos == 2
\* most bibl children of an observation
MaxRefs == 2
\* most numbers in the text of a geo element
MaxNums == 2
\* most places in the place set get_geo_info is called with on its own
MaxPlaces == 2
\* most personGrp children of an observation
MaxPers == 2
\* most personGrp children of a listPerson of the person-group document
MaxGroups == 2

(***************************************************************************)
(* Python's str and list operations on sequences of characters.            *)
(***************************************************************************)
\* F(v), with v computed once: TLC computes an operator's argument anew at
\* each use, and the value a bound variable stands for only once
At(v, F(_)) == CHOOSE r \in {F(x) : x \in {v}} : TRUE

\* str.startswith(p)
StartsWith(s, p) == Len(p) <= Len(s) /\ SubSeq(s, 1, Len(p)) = p

\* s[i:], 1-based
From(s, i) == SubSeq(s, i, Len(s))

\* str.replace(old, new): every non-overlapping occurrence, left to right
RECURSIVE Replace(_, _, _)
Replace(s, old, new) ==
    IF s = <<>> THEN <<>>
    ELSE IF StartsWith(s, old)
         THEN At(From(s, Len(old) + 1), LAMBDA rest : new \o Replace(rest, old, new))
         ELSE At(Tail(s), LAMBDA rest : <<Head(s)>> \o Replace(rest, old, new))

\* index of the first element of s that is in the set cs, 0 when there is none
FirstIn(s, cs) ==
    IF \E i \in 1..Len(s) : s[i] \in cs
    THEN CHOOSE i \in 1..Len(s) : s[i] \in cs /\ \A j \in 1..(i - 1) : s[j] \notin cs
    ELSE 0

\* str.split(c) for a one-character separator: empty pieces are kept
RECURSIVE Split(_, _)
Split(s, c) ==
    At(FirstIn(s, {c}), LAMBDA i :
        IF i = 0 THEN <<s>>
        ELSE At(From(s, i + 1), LAMBDA rest : <<SubSeq(s, 1, i - 1)>> \o Split(rest, c)))

\* str.lstrip(chars)
RECURSIVE LStrip(_, _)
LStrip(s, cs) ==
    IF s # <<>> /\ Head(s) \in cs THEN At(Tail(s), LAMBDA rest : LStrip(rest, cs))
    ELSE s

\* str.strip(): without the white space at its ends
RECURSIVE Strip(_)
Strip(s) ==
    IF s # <<>> /\ Head(s) \in {" ", "\t", "\n", "\r", "\f"}
    THEN At(Tail(s), LAMBDA rest : Strip(rest))
    ELSE IF s # <<>> /\ s[Len(s)] \in {" ", "\t", "\n", "\r", "\f"}
    THEN At(SubSeq(s, 1, Len(s) - 1), LAMBDA front : Strip(front))
    ELSE s

\* reversed(list)
Reversed(s) == [i \in 1..Len(s) |-> s[Len(s) + 1 - i]]

\* the code points of the characters the model's sortable strings use
Ord(c) ==
    CASE c = ":" -> 58
      [] c = "a" -> 97
      [] c = "b" -> 98
      [] c = "c" -> 99
      [] c = "g" -> 103
      [] OTHER -> 0

\* s < t for Python strings: lexicographic by code point
RECURSIVE StrLess(_, _)
StrLess(s, t) ==
    IF t = <<>> THEN FALSE
    ELSE IF s = <<>> THEN TRUE
    ELSE IF Head(s) # Head(t) THEN Ord(Head(s)) < Ord(Head(t))
    ELSE At(<<Tail(s), Tail(t)>>, LAMBDA r : StrLess(r[1], r[2]))

(***************************************************************************)
(* get_geo_info: the coordinates of a place.                               *)
(***************************************************************************)
\* the characters the regular expression [\s,] matches, of those a TLA+
\* string can hold
SepChars == {" ", ",", "\t", "\n", "\r", "\f"}

\* re.split(r"[\s,]+", text): a run of separators splits once; a leading or
\* trailing run leaves an empty piece
RECURSIVE re_split(_)
re_split(text) ==
    At(FirstIn(text, SepChars), LAMBDA i :
        IF i = 0 THEN <<text>>
        ELSE At(LStrip(From(text, i + 1), SepChars),
                LAMBDA rest : <<SubSeq(text, 1, i - 1)>> \o re_split(rest)))

Digits == {"0", "1", "2", "3", "4", "5", "6", "7", "8", "9"}

DigitValue(c) ==
    CASE c = "0" -> 0 [] c = "1" -> 1 [] c = "2" -> 2 [] c = "3" -> 3
      [] c = "4" -> 4 [] c = "5" -> 5 [] c = "6" -> 6 [] c = "7" -> 7
      [] c = "8" -> 8 [] c = "9" -> 9

\* the number a run of digits writes
RECURSIVE DigitsValue(_)
DigitsValue(ds) ==
    IF ds = <<>> THEN 0
    ELSE At(SubSeq(ds, 1, Len(ds) - 1),
            LAMBDA front : 10 * DigitsValue(front) + DigitValue(ds[Len(ds)]))

\* a decimal number m * 10^(-e), without trailing zeros in its fraction
RECURSIVE Decimal(_, _)
Decimal(m, e) ==
    IF e > 0 /\ m % 10 = 0
    THEN At(<<m \div 10, e - 1>>, LAMBDA r : Decimal(r[1], r[2]))
    ELSE <<m, e>>

\* the part of a coordinate after its sign
Unsigned(tok) == IF tok # <<>> /\ Head(tok) = "-" THEN Tail(tok) ELSE tok

\* whether float(tok) returns: an optional sign, digits, at most one point,
\* at least one digit (of the characters the model writes coordinates with)
FloatOk(tok) ==
    LET u == Unsigned(tok)
    IN  /\ \A i \in 1..Len(u) : u[i] \in Digits \cup {"."}
        /\ Cardinality({i \in 1..Len(u) : u[i] = "."}) <= 1
        /\ \E i \in 1..Len(u) : u[i] \in Digits

\* float(tok), as an exact decimal
Float(tok) ==
    At(Unsigned(tok), LAMBDA u :
    At(FirstIn(u, {"."}), LAMBDA p :
        LET int  == IF p = 0 THEN u ELSE SubSeq(u, 1, p - 1)
            frac == IF p = 0 THEN <<>> ELSE From(u, p + 1)
        IN  At(DigitsValue(int \o frac), LAMBDA m :
                Decimal(IF u = tok THEN m ELSE 0 - m, Len(frac)))))

\* LngLat with the coordinates left in the order of the text
LngLatUnreversed(text) ==
    At(SelectSeq(re_split(text), LAMBDA t : t # <<>>), LAMBDA toks :
        IF \E i \in 1..Len(toks) : ~FloatOk(toks[i])
        THEN [ok |-> FALSE, val |-> <<>>]
        ELSE [ok |-> TRUE, val |-> [i \in 1..Len(toks) |-> Float(toks[i])]])

\* [float(coord) for coord in reversed(coordinates) if coord]; ok is FALSE
\* when float raises ValueError
LngLat(text) ==
    At(SelectSeq(Reversed(re_split(text)), LAMBDA t : t # <<>>), LAMBDA toks :
        IF \E i \in 1..Len(toks) : ~FloatOk(toks[i])
        THEN [ok |-> FALSE, val |-> <<>>]
        ELSE [ok |-> TRUE, val |-> [i \in 1..Len(toks) |-> Float(toks[i])]])

\* geo_doc.any_xpath('//tei:place[@xml:id="{geo_xml_id}"]/tei:location'):
\* geo_doc maps the xml:id of each of its place elements to
\* [locations: the place's location children, each [geos: the texts of its
\* geo children with decls="#dd"], names: the placeName texts under it]
LocationEl(doc, geo_xml_id) ==
    IF geo_xml_id \in DOMAIN doc THEN doc[geo_xml_id].locations ELSE <<>>

\* sep.join(parts)
RECURSIVE Join(_, _)
Join(sep, parts) ==
    IF parts = <<>> THEN <<>>
    ELSE IF Len(parts) = 1 THEN <<parts[1]>>
    ELSE At(Tail(parts), LAMBDA rest : <<parts[1], sep>> \o Join(sep, rest))

\* " / ".join(...placeName/text()): the names are in document order, and
\* each name and the separator is one element of the string
PlaceNameText(doc, geo_xml_id) ==
    IF geo_xml_id \in DOMAIN doc THEN Join(" / ", doc[geo_xml_id].names) ELSE <<>>

\* the body of the loop of get_geo_info for one place_id; acc is
\* [exc: the exception raised or "none", features: geo_features so far]
GeoInfoStep(acc, place_id, doc) ==
    At(Split(place_id, ":"), LAMBDA parts :
        IF Len(parts) < 2 THEN [acc EXCEPT !.exc = "IndexError"]
        ELSE
        LET geo_xml_id  == parts[2]
            location_el == LocationEl(doc, geo_xml_id)
            geo_el      == location_el[1].geos
        IN  IF location_el = <<>> THEN acc
            ELSE
            At(IF geo_el # <<>> THEN LngLat(geo_el[1]) ELSE [ok |-> TRUE, val |-> <<>>],
               LAMBDA lng_lat :
                LET feature ==
                        [type |-> "Feature",
                         id |-> place_id,
                         geometry |-> [type |-> "Point", coordinates |-> lng_lat.val],
                         properties |-> [name |-> PlaceNameText(doc, geo_xml_id)]]
                IN  IF ~lng_lat.ok THEN [acc EXCEPT !.exc = "ValueError"]
                    ELSE [acc EXCEPT !.features = Append(@, feature)]))

\* for place_id in places: ..., the places taken in the order `order`
RECURSIVE GeoInfoLoop(_, _, _)
GeoInfoLoop(acc, order, doc) ==
    IF order = <<>> \/ acc.exc # "none" THEN acc
    ELSE At(GeoInfoStep(acc, Head(order), doc),
            LAMBDA a : GeoInfoLoop(a, Tail(order), doc))

\* inserting f into a list sorted by id, behind the features that are not greater
RECURSIVE InsertById(_, _)
InsertById(sorted, f) ==
    IF sorted = <<>> THEN <<f>>
    ELSE IF StrLess(f.id, Head(sorted).id) THEN <<f>> \o sorted
    ELSE At(Tail(sorted), LAMBDA rest : <<Head(sorted)>> \o InsertById(rest, f))

\* geo_features.sort(key=lambda feature: feature["id"]): a stable sort
RECURSIVE SortById(_)
SortById(fs) ==
    IF fs = <<>> THEN <<>>
    ELSE At(SortById(SubSeq(fs, 1, Len(fs) - 1)),
            LAMBDA sorted : InsertById(sorted, fs[Len(fs)]))

\* get_geo_info(places, geo_doc), the set places iterated in the order `order`
get_geo_info(order, doc) ==
    At(GeoInfoLoop([exc |-> "none", features |-> <<>>], order, doc), LAMBDA r :
        IF r.exc # "none" THEN r ELSE [r EXCEPT !.features = SortById(@)])

(***************************************************************************)
(* Python dicts.                                                           *)
(***************************************************************************)
EmptyDict == <<>>

\* d[k] = v
Put(d, k, v) == [x \in DOMAIN d \cup {k} |-> IF x = k THEN v ELSE d[x]]

\* d.get(k, default)
Get(d, k, default) == IF k \in DOMAIN d THEN d[k] ELSE default

\* a warning line: the text the code prints and the reference it names
Warning(msg, arg) == [msg |-> msg, arg |-> arg]

(***************************************************************************)
(* get_feature_data: one featureValueObservation.                          *)
(*                                                                         *)
(* A feature document is [id, title, category, items, fvos, other_places]: *)
(* the xml:id of its root, its title, the targets of its catRef, the label *)
(* of each item by xml:id, its featureValueObservations in document order  *)
(* and the placeName references outside any observation.                   *)
(* An observation is [status, ref, bibl, place, lang, pers, src_reps,      *)
(* examples, translations, remarks, constraints, exceptions]: ref is <<>>  *)
(* when the name element has no ref attribute and <<value>> otherwise;     *)
(* bibl lists the corresp of each bibl child ("" when absent); lang lists  *)
(* the corresp of each lang child (<<>> when absent, <<value>> otherwise); *)
(* pers lists [role, corresp] of each personGrp child; the remaining       *)
(* fields list the texts of the quotes and notes ("" for no text).         *)
(***************************************************************************)
ZotPrefix == <<"z", "o", "t", ":">>
SrcPrefix == <<"s", "r", "c", ":">>
PgrPrefix == <<"p", "g", "r", ":">>
XmlSuffix == <<".", "x", "m", "l">>

\* ValueLabel with another label for a reference that names no item
ValueLabelUnknown(fvo, doc) ==
    IF fvo.ref = <<>>
    THEN [exc |-> "AttributeError", name |-> "Missing"]
    ELSE IF fvo.ref[1] = <<>>
    THEN [exc |-> "none", name |-> "Missing"]
    ELSE At(LStrip(fvo.ref[1], {"#"}), LAMBDA fv_ref :
             [exc |-> "none",
              name |-> IF fv_ref \in DOMAIN doc.items THEN doc.items[fv_ref]
                       ELSE "Unknown"])

\* fv_name of an observation: [exc, name]
ValueLabel(fvo, doc) ==
    IF fvo.ref = <<>>
    THEN [exc |-> "AttributeError", name |-> "Missing"]
    ELSE IF fvo.ref[1] = <<>>
    THEN [exc |-> "none", name |-> "Missing"]
    ELSE At(LStrip(fvo.ref[1], {"#"}), LAMBDA fv_ref :
             [exc |-> "none",
              name |-> IF fv_ref \in DOMAIN doc.items THEN doc.items[fv_ref]
                       ELSE "Missing"])

\* the placeholder for a source that is not in Zotero
SrcPlaceholder(bibl_id) ==
    [short_cit |-> bibl_id, link |-> "", decade_dc |-> ("2020s" :> "high")]

\* the body of `for ref in source_refs`; acc is [sources, warnings]
SourceStep(acc, ref, source_refs, bibl) ==
    IF ref = <<>> THEN acc
    ELSE IF StartsWith(ref, ZotPrefix)
    THEN At(Replace(ref, ZotPrefix, <<>>), LAMBDA bibl_id :
             IF bibl_id = <<>> THEN acc
             ELSE IF bibl_id \in DOMAIN bibl
             THEN [acc EXCEPT !.sources = Put(@, bibl_id, bibl[bibl_id])]
             ELSE [acc EXCEPT !.warnings =
                       Append(@, Warning("Missing source data for", bibl_id))])
    ELSE IF StartsWith(ref, SrcPrefix)
    THEN At(Replace(ref, SrcPrefix, <<>>), LAMBDA bibl_id :
             [acc EXCEPT !.sources = Put(@, bibl_id, SrcPlaceholder(bibl_id))])
    ELSE [acc EXCEPT !.warnings =
              Append(@, Warning("Unknown source reference format:", ref))]

RECURSIVE SourceLoop(_, _, _, _)
SourceLoop(acc, refs, source_refs, bibl) ==
    IF refs = <<>> THEN acc
    ELSE At(SourceStep(acc, Head(refs), source_refs, bibl),
            LAMBDA a : SourceLoop(a, Tail(refs), source_refs, bibl))

\* the handling of sources: entry is fv_data[fv_name]; r is [entry, warnings]
Sources(r, fvo, bibl) ==
    At(SourceLoop([sources |-> Get(r.entry, "sources", EmptyDict),
                   warnings |-> r.warnings],
                  fvo.bibl, fvo.bibl, bibl),
       LAMBDA acc :
        [entry |-> Put(r.entry, "sources", acc.sources), warnings |-> acc.warnings])

Last(s) == s[Len(s)]

\* corresp.split("\\")[-1].split("_")[-1].replace(".xml", "")
VarietyId(corresp) ==
    Replace(Last(Split(Last(Split(corresp, "\\")), "_")), XmlSuffix, <<>>)

\* the variety of the observation
Variety(r, fvo, titles) ==
    LET varieties == fvo.lang
        present   == SelectSeq(varieties, LAMBDA x : x # <<>>)
        w1 == IF Len(varieties) > 1
              THEN Append(r.warnings, Warning("Multiple varieties found for", <<>>))
              ELSE r.warnings
    IN
    At([i \in 1..Len(present) |-> VarietyId(present[i][1])], LAMBDA variety_ids :
        IF varieties = <<>> THEN r
        ELSE IF variety_ids = <<>> THEN [r EXCEPT !.warnings = w1]
        ELSE IF variety_ids[1] \in DOMAIN titles
        THEN [entry |-> Put(r.entry, "variety", titles[variety_ids[1]]),
              warnings |-> w1]
        ELSE [entry |-> Put(r.entry, "variety", <<"Missing">>),
              warnings |-> Append(w1, Warning("Missing title for variety",
                                              variety_ids[1]))])

\* the body of `for x in pers_group`; a resolved name is <<name>>, None is <<>>
PersStep(r, x, pers) ==
    At(Replace(x.corresp, PgrPrefix, <<>>), LAMBDA id :
    LET role    == x.role
        corresp == x.corresp
        found   == role \in DOMAIN pers /\ id \in DOMAIN pers[role]
        name    == IF role = "firstLanguage" THEN <<corresp>>
                   ELSE IF StartsWith(corresp, PgrPrefix)
                   THEN (IF found THEN <<pers[role][id]>> ELSE <<>>)
                   ELSE << <<>> >>
        w       == IF role = "firstLanguage" THEN r.warnings
                   ELSE IF StartsWith(corresp, PgrPrefix)
                   THEN (IF found THEN r.warnings
                         ELSE Append(r.warnings,
                                     Warning("Couldn't find matching data for", id)))
                   ELSE Append(r.warnings,
                               Warning("Unknown person group reference format:",
                                       corresp))
    IN  IF role # "" /\ corresp # <<>>
        THEN [entry |-> Put(r.entry, role, Append(Get(r.entry, role, <<>>), name)),
              warnings |-> w]
        ELSE r)

RECURSIVE PersLoop(_, _, _)
PersLoop(r, xs, pers) ==
    IF xs = <<>> THEN r
    ELSE At(PersStep(r, Head(xs), pers), LAMBDA a : PersLoop(a, Tail(xs), pers))

\* the texts of a list of elements that have one
ValidTexts(texts) == {texts[i] : i \in 1..Len(texts)} \ {""}

\* existing = entry.setdefault(key, []); existing.extend(valid);
\* entry[key] = list(set(existing)): a list without duplicates, in the order
\* of a Python set, which is kept here as the set
FreeText(r, key, texts) ==
    IF ValidTexts(texts) # {}
    THEN [r EXCEPT !.entry = Put(@, key, Get(@, key, {}) \cup ValidTexts(texts))]
    ELSE r

\* the body of `for fvo in doc.tree.xpath(fvo_xpath)` without the counter:
\* [fv_dict, warnings, exc]; t is [bibl, pers, titles]
ProcessFvo(fv_dict, fvo, doc, t) ==
    At(ValueLabel(fvo, doc), LAMBDA label :
    LET fv_name == label.name IN
    IF label.exc # "none"
    THEN [fv_dict |-> fv_dict, warnings |-> <<>>, exc |-> label.exc]
    ELSE
    At([entry |-> Get(fv_dict, fv_name, EmptyDict), warnings |-> <<>>], LAMBDA r0 :
    At(Sources(r0, fvo, t.bibl), LAMBDA r1 :
    At(Variety(r1, fvo, t.titles), LAMBDA r2 :
    At(PersLoop(r2, fvo.pers, t.pers), LAMBDA r3 :
    At(FreeText(r3, "source_representations", fvo.src_reps), LAMBDA r4 :
    At(FreeText(r4, "examples", fvo.examples), LAMBDA r5 :
    At(FreeText(r5, "translations", fvo.translations), LAMBDA r6 :
    At(FreeText(r6, "remarks", fvo.remarks), LAMBDA r7 :
    At(FreeText(r7, "constraints", fvo.constraints), LAMBDA r8 :
    At(FreeText(r8, "exceptions", fvo.exceptions), LAMBDA r9 :
        [fv_dict |-> Put(fv_dict, fv_name, r9.entry),
         warnings |-> r9.warnings, exc |-> "none"])))))))))))

\* CountUp that marks the feature as seen and does not count
CountSeen(counts, ft_id) == Put(counts, ft_id, 1)

\* f_names_count[ft_id] = f_names_count.get(ft_id, 0) + 1
CountUp(counts, ft_id) == Put(counts, ft_id, Get(counts, ft_id, 0) + 1)

\* whether the loop over the observations takes this one
Selected(fvo, place_id) == fvo.place = place_id

\* the loop over the observations of one document for one place;
\* acc is [fv_dict, f_names_count, warnings, exc]
RECURSIVE FvoLoop(_, _, _, _, _, _)
FvoLoop(acc, fvos, place_id, doc, ft_id, t) ==
    IF fvos = <<>> \/ acc.exc # "none" THEN acc
    ELSE IF ~Selected(Head(fvos), place_id)
    THEN FvoLoop(acc, Tail(fvos), place_id, doc, ft_id, t)
    ELSE At(ProcessFvo(acc.fv_dict, Head(fvos), doc, t), LAMBDA r :
         At(IF r.exc # "none" THEN [acc EXCEPT !.exc = r.exc]
            ELSE [fv_dict |-> r.fv_dict,
                  f_names_count |-> CountUp(acc.f_names_count, ft_id),
                  warnings |-> acc.warnings \o r.warnings,
                  exc |-> "none"],
            LAMBDA a : FvoLoop(a, Tail(fvos), place_id, doc, ft_id, t)))

\* doc.any_xpath("//tei:placeName/@ref"): every place the document names
Mentions(doc) == doc.other_places \cup {doc.fvos[i].place : i \in 1..Len(doc.fvos)}

\* the body of `for doc in documents.values()` for one place;
\* acc is [documented_features, f_names_count, warnings, exc]
DocStep(acc, doc, place_id, t) ==
    IF place_id \notin Mentions(doc) THEN acc
    ELSE
    LET ft_id == doc.id
        w == IF ft_id \in DOMAIN acc.documented_features
             THEN Append(acc.warnings, Warning("duplicate feature id", <<ft_id>>))
             ELSE acc.warnings
    IN
    At(FvoLoop([fv_dict |-> EmptyDict, f_names_count |-> acc.f_names_count,
                warnings |-> w, exc |-> "none"],
               doc.fvos, place_id, doc, ft_id, t),
       LAMBDA r :
        IF r.exc # "none" THEN [acc EXCEPT !.exc = r.exc]
        ELSE [documented_features |-> Put(acc.documented_features, ft_id, r.fv_dict),
              f_names_count |-> r.f_names_count,
              warnings |-> r.warnings,
              exc |-> "none"])

RECURSIVE DocLoop(_, _, _, _)
DocLoop(acc, docs, place_id, t) ==
    IF docs = <<>> \/ acc.exc # "none" THEN acc
    ELSE At(DocStep(acc, Head(docs).doc, place_id, t),
            LAMBDA a : DocLoop(a, Tail(docs), place_id, t))

\* d.update(e)
Update(d, e) ==
    [x \in DOMAIN d \cup DOMAIN e |-> IF x \in DOMAIN e THEN e[x] ELSE d[x]]

\* the body of `for feature in geo_features`;
\* acc is [features, f_names_count, warnings, exc]
PlaceStep(acc, feature, docs, t) ==
    At(DocLoop([documented_features |-> EmptyDict,
                f_names_count |-> acc.f_names_count,
                warnings |-> acc.warnings, exc |-> "none"],
               docs, feature.id, t),
       LAMBDA r :
        IF r.exc # "none" THEN [acc EXCEPT !.exc = r.exc]
        ELSE [features |-> Append(acc.features,
                  [feature EXCEPT !.properties = Update(@, r.documented_features)]),
              f_names_count |-> r.f_names_count,
              warnings |-> r.warnings,
              exc |-> "none"])

RECURSIVE PlaceLoop(_, _, _, _)
PlaceLoop(acc, features, docs, t) ==
    IF features = <<>> \/ acc.exc # "none" THEN acc
    ELSE At(PlaceStep(acc, Head(features), docs, t),
            LAMBDA a : PlaceLoop(a, Tail(features), docs, t))

\* get_feature_data(geo_features, documents, bibl_data, pers_data, variety_title):
\* [features, f_names_count, warnings, exc]; docs is documents in the order
\* documents.values() gives, t is [bibl, pers, titles]
get_feature_data(features, docs, t) ==
    PlaceLoop([features |-> <<>>, f_names_count |-> EmptyDict,
               warnings |-> <<>>, exc |-> "none"],
              features, docs, t)

(***************************************************************************)
(* process_files, get_variety_titles, first_pass_features.                 *)
(*                                                                         *)
(* A directory entry is [name, is_file, loads, doc]: loads is "ok" or the  *)
(* exception TeiReader raises for the file, doc is what it reads.          *)
(***************************************************************************)
TemplateWord == <<"t", "e", "m", "p", "l", "a", "t", "e">>

\* sub in s
Contains(s, sub) == \E i \in 1..(Len(s) + 1) : StartsWith(From(s, i), sub)

\* Path(directory, file_name).as_posix()
PosixPath(directory, file_name) == directory \o <<"/">> \o file_name

\* the body of `for file_name in os.listdir(directory)`;
\* acc is [processed_data, errors]
ProcessFile(acc, directory, entry) ==
    IF entry.is_file /\ ~Contains(entry.name, TemplateWord)
    THEN IF entry.loads = "ok"
         THEN [acc EXCEPT !.processed_data =
                  Append(@, [path |-> PosixPath(directory, entry.name),
                             doc |-> entry.doc])]
         ELSE [acc EXCEPT !.errors =
                  @ \cup {[file_name |-> entry.name, e |-> entry.loads]}]
    ELSE acc

RECURSIVE ProcessFilesLoop(_, _, _)
ProcessFilesLoop(acc, directory, listing) ==
    IF listing = <<>> THEN acc
    ELSE At(ProcessFile(acc, directory, Head(listing)),
            LAMBDA a : ProcessFilesLoop(a, directory, Tail(listing)))

\* process_files(directory): [processed_data, errors]
process_files(directory, listing) ==
    ProcessFilesLoop([processed_data |-> <<>>, errors |-> {}], directory, listing)

\* the words get_variety_titles takes out of a title, as one element
ProfileWords == <<"A machine-readable profile of">>

\* get_variety_titles(profiles); a profile document is [title]
RECURSIVE get_variety_titles(_)
get_variety_titles(profs) ==
    IF profs = <<>> THEN EmptyDict
    ELSE At(get_variety_titles(SubSeq(profs, 1, Len(profs) - 1)), LAMBDA titles :
            Put(titles, VarietyId(Last(profs).path),
                Strip(Replace(Last(profs).doc.title, ProfileWords, <<>>))))

DmpPrefix == <<"d", "m", "p", ":">>
MissingCategory == <<"M", "i", "s", "s", "i", "n", "g">>

\* the parent category of a feature document
Category(doc) ==
    IF doc.category # <<>> /\ StartsWith(doc.category[1], DmpPrefix)
    THEN Replace(doc.category[1], DmpPrefix, <<>>)
    ELSE MissingCategory

\* d[k] = v for a dict whose key order is used: a new key goes last
PutOrdered(d, k, v) ==
    [keys |-> IF k \in DOMAIN d.val THEN d.keys ELSE Append(d.keys, k),
     val |-> Put(d.val, k, v)]

\* first_pass_features(documents):
\* [mentioned_places, ft_name_dict, parent_categories, warnings]
RECURSIVE first_pass_features(_)
first_pass_features(docs) ==
    IF docs = <<>>
    THEN [mentioned_places |-> {}, ft_name_dict |-> [keys |-> <<>>, val |-> EmptyDict],
          parent_categories |-> EmptyDict, warnings |-> <<>>]
    ELSE
    At(first_pass_features(SubSeq(docs, 1, Len(docs) - 1)), LAMBDA r :
    LET doc == Last(docs).doc
    IN  [mentioned_places |-> r.mentioned_places \cup (Mentions(doc) \ {<<>>}),
         ft_name_dict |-> PutOrdered(r.ft_name_dict, doc.id, doc.title),
         parent_categories |-> Put(r.parent_categories, doc.id, Category(doc)),
         warnings |-> IF Category(doc) = MissingCategory
                      THEN Append(r.warnings,
                               Warning("Wrong prefix or missing parent category for ",
                                       <<doc.id>>))
                      ELSE r.warnings])

(***************************************************************************)
(* main: the column headings.                                              *)
(***************************************************************************)
\* inserting key k into a list sorted by descending count, behind the keys
\* whose count is not smaller
RECURSIVE InsertByCount(_, _, _)
InsertByCount(sorted, k, counts) ==
    IF sorted = <<>> THEN <<k>>
    ELSE IF Get(counts, k, 0) > Get(counts, Head(sorted), 0) THEN <<k>> \o sorted
    ELSE At(Tail(sorted), LAMBDA rest : <<Head(sorted)>> \o InsertByCount(rest, k, counts))

\* sorted(ft_name_dict, key=lambda x: f_names_count.get(x, 0), reverse=True):
\* a stable sort, keys of equal count keep the order of ft_name_dict
RECURSIVE SortByCount(_, _)
SortByCount(keys, counts) ==
    IF keys = <<>> THEN <<>>
    ELSE At(SortByCount(SubSeq(keys, 1, Len(keys) - 1), counts),
            LAMBDA sorted : InsertByCount(sorted, Last(keys), counts))

NameHeading == ("name" :> "Name")

\* one entry of column_headings
Heading(key, names, counts, categories) ==
    (key :> names.val[key]) @@ ("count" :> counts[key])
        @@ ("category" :> categories[key])

\* column_headings of main: [exc, column_headings]
ColumnHeadingsOf(names, counts, categories) ==
    At(SortByCount(names.keys, counts), LAMBDA sorted_titles :
        IF \E i \in 1..Len(sorted_titles) : sorted_titles[i] \notin DOMAIN counts
        THEN [exc |-> "KeyError", column_headings |-> <<>>]
        ELSE [exc |-> "none",
              column_headings |->
                  <<NameHeading>> \o
                  [i \in 1..Len(sorted_titles) |->
                      Heading(sorted_titles[i], names, counts, categories)]])

(***************************************************************************)
(* get_pers_data.                                                          *)
(*                                                                         *)
(* The person-group document is the sequence of its listPerson elements,   *)
(* each the sequence of its personGrp children [id, role, names]: xml:id,   *)
(* role and the texts of the name children.                                *)
(***************************************************************************)
\* the body of `for group in pers_list.findall(...)`; acc is [exc, pers_data]
GroupStep(acc, group) ==
    IF group.role = "firstlanguage" THEN acc
    ELSE IF group.names = <<>> THEN [acc EXCEPT !.exc = "IndexError"]
    ELSE [acc EXCEPT !.pers_data =
             Put(@, group.role,
                 Put(Get(@, group.role, EmptyDict), group.id, group.names[1]))]

RECURSIVE GroupLoop(_, _)
GroupLoop(acc, groups) ==
    IF groups = <<>> \/ acc.exc # "none" THEN acc
    ELSE At(GroupStep(acc, Head(groups)), LAMBDA a : GroupLoop(a, Tail(groups)))

RECURSIVE ListLoop(_, _)
ListLoop(acc, lists) ==
    IF lists = <<>> \/ acc.exc # "none" THEN acc
    ELSE At(GroupLoop(acc, Head(lists)), LAMBDA a : ListLoop(a, Tail(lists)))

\* get_pers_data(pers_doc): [exc, pers_data]
get_pers_data(doc) == ListLoop([exc |-> "none", pers_data |-> EmptyDict], doc)

(***************************************************************************)
(* main, one action for each call it makes.                                *)
(***************************************************************************)
\* featuredb/010_manannot/features and featuredb/010_manannot/profiles
FeaturesPath == <<"featuredb/010", "_", "manannot/features">>
ProfilesPath == <<"featuredb/010", "_", "manannot/profiles">>

NotWritten == [type |-> "none"]

\* the orders in which a loop may take the elements of the set S
Orders(S) ==
    {o \in [1..Cardinality(S) -> S] : \A i, j \in 1..Cardinality(S) : o[i] = o[j] => i = j}

\* main ends with an uncaught exception
Raise(e) == pc' = "crashed" /\ exception' = e

\* documents, processing_errors = process_files(features_path)
ProcessFeatureFiles ==
    /\ pc = "process_features"
    /\ \E r \in {process_files(FeaturesPath, features_dir)} :
           /\ documents' = r.processed_data
           /\ processing_errors' = r.errors
    /\ pc' = "process_profiles"
    /\ UNCHANGED <<features_dir, profiles_dir, geo_doc, bibl_data, pers_doc,
                   pers_data,
                   profiles, variety_title, places, ft_name_dict,
                   parent_categories, geo_features, f_names_count,
                   column_headings, geojson, reported, warnings, exception>>

\* profiles, processing_errors = process_files(profiles_path)
ProcessProfileFiles ==
    /\ pc = "process_profiles"
    /\ \E r \in {process_files(ProfilesPath, profiles_dir)} :
           /\ profiles' = r.processed_data
           /\ processing_errors' = r.errors
    /\ pc' = "variety_titles"
    /\ UNCHANGED <<features_dir, profiles_dir, geo_doc, bibl_data, pers_doc,
                   pers_data,
                   documents, variety_title, places, ft_name_dict,
                   parent_categories, geo_features, f_names_count,
                   column_headings, geojson, reported, warnings, exception>>

\* variety_title = get_variety_titles(profiles)
GetVarietyTitles ==
    /\ pc = "variety_titles"
    /\ variety_title' = get_variety_titles(profiles)
    /\ pc' = "first_pass"
    /\ UNCHANGED <<features_dir, profiles_dir, geo_doc, bibl_data, pers_doc,
                   pers_data,
                   documents, profiles, processing_errors, places, ft_name_dict,
                   parent_categories, geo_features, f_names_count,
                   column_headings, geojson, reported, warnings, exception>>

\* places, ft_name_dict, parent_categories = first_pass_features(documents)
FirstPassFeatures ==
    /\ pc = "first_pass"
    /\ \E r \in {first_pass_features(documents)} :
           /\ places' = r.mentioned_places
           /\ ft_name_dict' = r.ft_name_dict
           /\ parent_categories' = r.parent_categories
           /\ warnings' = warnings \o r.warnings
    /\ pc' = "geo_info"
    /\ UNCHANGED <<features_dir, profiles_dir, geo_doc, bibl_data, pers_doc,
                   pers_data,
                   documents, profiles, processing_errors, variety_title,
                   geo_features, f_names_count, column_headings, geojson,
                   reported, exception>>

\* geo_features = get_geo_info(places, geo_doc); places is a set, which the
\* loop takes in any order
GetGeoInfo ==
    /\ pc = "geo_info"
    /\ \E order \in Orders(places) :
       \E r \in {get_geo_info(order, geo_doc)} :
              IF r.exc # "none"
              THEN Raise(r.exc) /\ UNCHANGED geo_features
              ELSE /\ geo_features' = r.features
                   /\ pc' = "pers_data"
                   /\ UNCHANGED exception
    /\ UNCHANGED <<features_dir, profiles_dir, geo_doc, bibl_data, pers_doc,
                   pers_data,
                   documents, profiles, processing_errors, variety_title, places,
                   ft_name_dict, parent_categories, f_names_count,
                   column_headings, geojson, reported, warnings>>

\* pers_data = get_pers_data(pers_doc)
GetPersData ==
    /\ pc = "pers_data"
    /\ \E r \in {get_pers_data(pers_doc)} :
           IF r.exc # "none"
           THEN Raise(r.exc) /\ UNCHANGED pers_data
           ELSE /\ pers_data' = r.pers_data
                /\ pc' = "feature_data"
                /\ UNCHANGED exception
    /\ UNCHANGED <<features_dir, profiles_dir, geo_doc, bibl_data, pers_doc,
                   documents, profiles, processing_errors, variety_title, places,
                   ft_name_dict, parent_categories, geo_features, f_names_count,
                   column_headings, geojson, reported, warnings>>

\* the reference tables get_feature_data receives
Tables == [bibl |-> bibl_data, pers |-> pers_data, titles |-> variety_title]

\* enriched_features, f_names_count = get_feature_data(...)
GetFeatureData ==
    /\ pc = "feature_data"
    /\ \E r \in {get_feature_data(geo_features, documents, Tables)} :
           IF r.exc # "none"
           THEN /\ Raise(r.exc)
                /\ UNCHANGED <<geo_features, f_names_count, warnings>>
           ELSE /\ geo_features' = r.features
                /\ f_names_count' = r.f_names_count
                /\ warnings' = warnings \o r.warnings
                /\ pc' = "column_headings"
                /\ UNCHANGED exception
    /\ UNCHANGED <<features_dir, profiles_dir, geo_doc, bibl_data, pers_doc,
                   pers_data,
                   documents, profiles, processing_errors, variety_title, places,
                   ft_name_dict, parent_categories, column_headings, geojson,
                   reported>>

\* sorted_titles and column_headings
ColumnHeadings ==
    /\ pc = "column_headings"
    /\ \E r \in {ColumnHeadingsOf(ft_name_dict, f_names_count, parent_categories)} :
           IF r.exc # "none"
           THEN Raise(r.exc) /\ UNCHANGED column_headings
           ELSE /\ column_headings' = r.column_headings
                /\ pc' = "write"
                /\ UNCHANGED exception
    /\ UNCHANGED <<features_dir, profiles_dir, geo_doc, bibl_data, pers_doc,
                   pers_data,
                   documents, profiles, processing_errors, variety_title, places,
                   ft_name_dict, parent_categories, geo_features, f_names_count,
                   geojson, reported, warnings>>

\* write_geojson("wibarab_varieties.geojson", geojson_data)
WriteGeojson ==
    /\ pc = "write"
    /\ geojson' = [type |-> "FeatureCollection",
                   properties |->
                       [description |-> "GEOJSON for the WIBARAB Feature DB",
                        column_headings |-> column_headings],
                   features |-> geo_features]
    /\ pc' = "report"
    /\ UNCHANGED <<features_dir, profiles_dir, geo_doc, bibl_data, pers_doc,
                   pers_data,
                   documents, profiles, processing_errors, variety_title, places,
                   ft_name_dict, parent_categories, geo_features, f_names_count,
                   column_headings, reported, warnings, exception>>

\* if processing_errors: print every error
ReportErrors ==
    /\ pc = "report"
    /\ reported' = processing_errors
    /\ pc' = "done"
    /\ UNCHANGED <<features_dir, profiles_dir, geo_doc, bibl_data, pers_doc,
                   pers_data,
                   documents, profiles, processing_errors, variety_title, places,
                   ft_name_dict, parent_categories, geo_features, f_names_count,
                   column_headings, geojson, warnings, exception>>

(***************************************************************************)
(* The inputs the model draws from.                                        *)
(***************************************************************************)
PlaceA == <<"g", ":", "a">>
PlaceB == <<"g", ":", "b">>
PlaceC == <<"g", ":", "c">>
PlaceTwoColons == <<"g", ":", "a", ":", "b">>
PlaceNoPrefix == <<"a">>

\* a place element with one location that holds one geo element
GeoPlace(text, name) == [locations |-> <<[geos |-> <<text>>]>>, names |-> <<name>>]
\* a place element with a location without a geo element
GeoPlaceNoGeo(name) == [locations |-> <<[geos |-> <<>>]>>, names |-> <<name>>]
\* a place element without a location
GeoPlaceNoLocation(name) == [locations |-> <<>>, names |-> <<name>>]

\* the geographic document of the runs of main: place c has no location
MainGeoDoc ==
    (<<"a">> :> GeoPlace(<<"1", ",", " ", "2">>, "Aa"))
    @@ (<<"b">> :> GeoPlace(<<"3", " ", "4">>, "Bb"))
    @@ (<<"c">> :> GeoPlaceNoLocation("Cc"))

BiblTable ==
    (<<"k", "1">> :> [short_cit |-> <<"K", "1">>, link |-> "http://k1",
                      decade_dc |-> ("1990s" :> "high")])
    @@ (<<"k", "2">> :> [short_cit |-> <<"K", "2">>, link |-> "http://k2",
                         decade_dc |-> ("N/A" :> "N/A")])

\* the person-group document of the runs of main, and its table
MainPersDoc == << <<[id |-> <<"p", "1">>, role |-> "r1", names |-> << <<"P", "1">> >>]>> >>
PersTable == get_pers_data(MainPersDoc).pers_data

\* a profile file name and a lang corresp that names it
ProfileName(c) == <<"p", "_", c, ".", "x", "m", "l">>
LangCorresp(c) == <<"\\">> \o ProfileName(c)

File(name, doc) == [name |-> name, is_file |-> TRUE, loads |-> "ok", doc |-> doc]
BrokenFile(name, e) == [name |-> name, is_file |-> TRUE, loads |-> e, doc |-> <<>>]
Directory(name) == [name |-> name, is_file |-> FALSE, loads |-> "ok", doc |-> <<>>]

\* the listings of the profile directory: every file loads, or one does not
ProfileDoc(name) == [title |-> ProfileWords \o <<" ", name>>]

ProfileListings ==
    {<<File(ProfileName("x"), ProfileDoc("X")), File(ProfileName("y"), ProfileDoc("Y"))>>,
     <<File(ProfileName("x"), ProfileDoc("X")), BrokenFile(ProfileName("y"), "OSError")>>}

Ref(c) == << <<"#", "v", c>> >>

BaseFvo ==
    [status |-> "done", ref |-> Ref("1"), bibl |-> <<ZotPrefix \o <<"k", "1">> >>,
     place |-> PlaceA, lang |-> << <<LangCorresp("x")>> >>, pers |-> <<>>,
     src_reps |-> <<>>, examples |-> <<"e1">>, translations |-> <<>>,
     remarks |-> <<>>, constraints |-> <<>>, exceptions |-> <<>>]

\* the same value at the same place from another source, of another variety
OtherFvo ==
    [BaseFvo EXCEPT !.bibl = <<SrcPrefix \o <<"s">> >>,
                    !.lang = << <<LangCorresp("y")>> >>,
                    !.examples = <<"e1", "e2", "">>,
                    !.remarks = <<"n1">>]

Items == (<<"v", "1">> :> "L1") @@ (<<"v", "2">> :> "L2")

Doc(id, title, fvos, other_places) ==
    [id |-> id, title |-> title, category |-> <<DmpPrefix \o <<"c">> >>,
     items |-> Items, fvos |-> fvos, other_places |-> other_places]

\* the files the feature directory of a run of main may hold
FeatureFiles ==
    {File(<<"f", "1">>, Doc("A", "Title A", <<BaseFvo>>, {})),
     File(<<"f", "2">>, Doc("B", "Title B", <<BaseFvo>>, {})),
     File(<<"f", "3">>, Doc("A", "Title A2", <<[BaseFvo EXCEPT !.ref = Ref("2")]>>, {})),
     File(<<"f", "4">>, Doc("C", "Title C", <<BaseFvo, OtherFvo>>, {})),
     File(<<"f", "5">>, Doc("B", "Title B", <<>>, {PlaceA})),
     File(<<"f", "6">>, Doc("B", "Title B", <<[BaseFvo EXCEPT !.place = PlaceNoPrefix]>>, {})),
     File(<<"f", "7">>, Doc("B", "Title B", <<[BaseFvo EXCEPT !.ref = <<>>]>>, {})),
     File(<<"f", "8">>, Doc("B", "Title B", <<[BaseFvo EXCEPT !.place = PlaceC]>>, {})),
     BrokenFile(<<"f", "9">>, "SyntaxError"),
     File(TemplateWord, Doc("T", "Template", <<BaseFvo>>, {})),
     Directory(<<"d">>)}

\* the sequences of 1..n different elements of S
Listings(S, n) ==
    UNION {{l \in [1..k -> S] : \A i, j \in 1..k : l[i] = l[j] => i = j} : k \in 1..n}

\* the sequences of at most n elements of S
SeqsUpTo(S, n) == UNION {[1..k -> S] : k \in 0..n}

(***************************************************************************)
(* A run of main.                                                          *)
(***************************************************************************)
Init ==
    /\ pc = "process_features"
    /\ features_dir \in Listings(FeatureFiles, MaxFiles)
    /\ profiles_dir \in ProfileListings
    /\ geo_doc = MainGeoDoc
    /\ bibl_data = BiblTable
    /\ pers_doc = MainPersDoc
    /\ pers_data = EmptyDict
    /\ documents = <<>>
    /\ profiles = <<>>
    /\ processing_errors = {}
    /\ variety_title = EmptyDict
    /\ places = {}
    /\ ft_name_dict = [keys |-> <<>>, val |-> EmptyDict]
    /\ parent_categories = EmptyDict
    /\ geo_features = <<>>
    /\ f_names_count = EmptyDict
    /\ column_headings = <<>>
    /\ geojson = NotWritten
    /\ reported = {}
    /\ warnings = <<>>
    /\ exception = "none"

Next ==
    \/ ProcessFeatureFiles
    \/ ProcessProfileFiles
    \/ GetVarietyTitles
    \/ FirstPassFeatures
    \/ GetGeoInfo
    \/ GetPersData
    \/ GetFeatureData
    \/ ColumnHeadings
    \/ WriteGeojson
    \/ ReportErrors

Spec == Init /\ [][Next]_vars

(***************************************************************************)
(* The state of main before get_geo_info, for given directories.           *)
(***************************************************************************)
BeforeGeoInfo(fdir, pdir) ==
    At(process_files(FeaturesPath, fdir), LAMBDA f :
    At(process_files(ProfilesPath, pdir), LAMBDA p :
    At(first_pass_features(f.processed_data), LAMBDA r :
        [documents |-> f.processed_data,
         profiles |-> p.processed_data,
         processing_errors |-> p.errors,
         variety_title |-> get_variety_titles(p.processed_data),
         places |-> r.mentioned_places,
         ft_name_dict |-> r.ft_name_dict,
         parent_categories |-> r.parent_categories,
         warnings |-> r.warnings])))

\* main is about to call get_geo_info, or (with features) get_feature_data
InitAt(at, fdir, pdir, gdoc, features) ==
    /\ pc = at
    /\ features_dir = fdir
    /\ profiles_dir = pdir
    /\ geo_doc = gdoc
    /\ bibl_data = BiblTable
    /\ pers_doc = MainPersDoc
    /\ pers_data = IF at = "feature_data" THEN PersTable ELSE EmptyDict
    /\ \E b \in {BeforeGeoInfo(fdir, pdir)} :
          /\ documents = b.documents
          /\ profiles = b.profiles
          /\ processing_errors = b.processing_errors
          /\ variety_title = b.variety_title
          /\ places = b.places
          /\ ft_name_dict = b.ft_name_dict
          /\ parent_categories = b.parent_categories
          /\ warnings = b.warnings
    /\ geo_features = features
    /\ f_names_count = EmptyDict
    /\ column_headings = <<>>
    /\ geojson = NotWritten
    /\ reported = {}
    /\ exception = "none"

GoodProfiles == CHOOSE l \in ProfileListings : \A i \in 1..Len(l) : l[i].loads = "ok"

(***************************************************************************)
(* get_geo_info on its own: places and geographic documents.               *)
(***************************************************************************)
\* the numbers a geo element is written with, and what float makes of each
NumPool ==
    {[tok |-> <<"1">>, val |-> <<1, 0>>],
     [tok |-> <<"-", "2", ".", "5">>, val |-> <<0 - 25, 1>>]}

\* the runs of separators between two numbers
SepRuns == SeqsUpTo({" ", ",", "\t"}, MaxSep) \ {<<>>}

\* what may stand before the first and behind the last number
Pads == {<<>>, <<" ">>}

\* a text: its numbers, the separator between them, what is around them
CoordSpecs ==
    [nums : SeqsUpTo(NumPool, MaxNums), sep : SepRuns, lead : Pads, trail : Pads]

RECURSIVE Joined(_, _)
Joined(nums, sep) ==
    IF nums = <<>> THEN <<>>
    ELSE IF Len(nums) = 1 THEN nums[1].tok
    ELSE At(Joined(Tail(nums), sep), LAMBDA rest : nums[1].tok \o sep \o rest)

\* the text of a CoordSpec
Rendered(c) == c.lead \o Joined(c.nums, c.sep) \o c.trail

\* each text with its numbers, in the order of the text
RenderTable == {<<Rendered(c), [i \in 1..Len(c.nums) |-> c.nums[i].val]>> : c \in CoordSpecs}

\* the numbers each rendered text was written with, in the order of the text
NumbersOf == [t \in {r[1] : r \in RenderTable} |-> (CHOOSE r \in RenderTable : r[1] = t)[2]]

\* texts float does not accept
BadTexts == {<<"x">>, <<"1", ",", "x">>}

CoordTexts == {r[1] : r \in RenderTable} \cup BadTexts

\* the geographic documents: place a is anything, place b has coordinates
\* or no location, and either may not be in the document
GeoDocs ==
    LET as == {GeoPlace(t, "Aa") : t \in CoordTexts}
                 \cup {GeoPlaceNoGeo("Aa"), GeoPlaceNoLocation("Aa")}
        bs == {GeoPlace(<<"3", " ", "4">>, "Bb"), GeoPlaceNoLocation("Bb")}
    IN  {(<<"a">> :> a) @@ (<<"b">> :> b) : a \in as, b \in bs}
        \cup {(<<"b">> :> b) : b \in bs}

GeoPlaceIds == {PlaceA, PlaceB, PlaceTwoColons, PlaceNoPrefix}

\* a feature directory whose one document names the places ps
NamingDir(ps) == <<File(<<"f", "1">>, Doc("A", "Title A", <<>>, ps))>>

InitGeo ==
    \E ps \in {x \in SUBSET GeoPlaceIds : Cardinality(x) \in 1..MaxPlaces},
       gdoc \in GeoDocs :
        InitAt("geo_info", NamingDir(ps), GoodProfiles, gdoc, <<>>)

SpecGeo == InitGeo /\ [][GetGeoInfo]_vars

\* the place elements of the geographic document that place_id selects
GeoRecord(place_id) ==
    LET parts == Split(place_id, ":")
    IN  IF Len(parts) >= 2 /\ parts[2] \in DOMAIN geo_doc THEN {geo_doc[parts[2]]}
        ELSE {}

\* the texts of the geodetic-declaration element of place_id
GeoTexts(place_id) ==
    {g.locations[1].geos[1] : g \in {x \in GeoRecord(place_id) :
                                       x.locations # <<>> /\ x.locations[1].geos # <<>>}}

\* the features get_geo_info returned
Returned == {geo_features[i] : i \in 1..Len(geo_features)}

\* C5: get_geo_info returns a feature for every place of the place set; a
\* place whose record has no location, or no geo element in it, is returned
\* with the empty coordinates array.
MissingGeometryKept ==
    pc = "pers_data" =>
        \A p \in places :
            GeoRecord(p) # {} =>
                \E f \in Returned :
                    f.id = p /\ (GeoTexts(p) = {} => f.geometry.coordinates = <<>>)

\* C10: a place with a geo element gets the numbers of its text in reversed
\* order, so "lat, lon" gives [lon, lat], and the returned list is sorted by
\* place identifier.
CoordinateOrder ==
    pc = "pers_data" =>
        /\ \A p \in places : \A t \in GeoTexts(p) :
              t \in DOMAIN NumbersOf =>
                  \E f \in Returned :
                      f.id = p /\ f.geometry.coordinates = Reversed(NumbersOf[t])
        /\ \A i, j \in 1..Len(geo_features) :
              i < j => StrLess(geo_features[i].id, geo_features[j].id)

\* two places returned, one of them with two different numbers
CoordinateOrderWitness ==
    /\ pc = "pers_data"
    /\ Len(geo_features) >= 2
    /\ \E f \in Returned :
          /\ Len(f.geometry.coordinates) = 2
          /\ f.geometry.coordinates[1] # f.geometry.coordinates[2]

(***************************************************************************)
(* get_feature_data and the column headings on their own: one document     *)
(* with any observations of a pool, alone or beside a second document.     *)
(***************************************************************************)
\* an observation that is not done, with a source and an example of its own
DraftFvo ==
    [BaseFvo EXCEPT !.status = "draft", !.bibl = <<ZotPrefix \o <<"k", "2">> >>,
                    !.examples = <<"e3">>]
ValueTwoFvo == [BaseFvo EXCEPT !.ref = Ref("2")]
PlaceBFvo == [BaseFvo EXCEPT !.place = PlaceB]
\* an observation at the place get_geo_info does not return
PlaceCFvo == [BaseFvo EXCEPT !.place = PlaceC]

FvoPool == {BaseFvo, OtherFvo, DraftFvo, ValueTwoFvo, PlaceBFvo, PlaceCFvo}

\* the documents that may stand beside the first: one has its feature id
SecondDocs ==
    {Doc("A", "Title A2", <<ValueTwoFvo>>, {}),
     Doc("B", "Title B", <<BaseFvo, PlaceBFvo>>, {})}

\* the listings of the feature directory with doc in it
FeatDirs(doc) ==
    {<<File(<<"f", "1">>, doc)>>}
    \cup {<<File(<<"f", "1">>, doc), File(<<"f", "2">>, d)>> : d \in SecondDocs}
    \cup {<<File(<<"f", "2">>, d), File(<<"f", "1">>, doc)>> : d \in SecondDocs}

SomeOrder(S) == CHOOSE o \in Orders(S) : TRUE

\* what get_geo_info returns for the places of a feature directory
SkeletonsOf(fdir, gdoc) ==
    At(BeforeGeoInfo(fdir, GoodProfiles), LAMBDA b :
        get_geo_info(SomeOrder(b.places), gdoc).features)

InitFeat ==
    \E fvos \in SeqsUpTo(FvoPool, MaxFvos), others \in {{}, {PlaceB}} :
    \E fdir \in FeatDirs(Doc("A", "Title A", fvos, others)) :
        InitAt("feature_data", fdir, GoodProfiles, MainGeoDoc,
               SkeletonsOf(fdir, MainGeoDoc))

NextFeat ==
    \/ GetFeatureData
    \/ ColumnHeadings

SpecFeat == InitFeat /\ [][NextFeat]_vars

\* the identifiers of the places get_geo_info returned
ReturnedIds == {geo_features[i].id : i \in 1..Len(geo_features)}

\* the observations of the documents with feature id ft_id that name a
\* returned place, each as <<document, position in the document>>
Contributing(ft_id) ==
    {di \in UNION {{<<d, i>> : i \in 1..Len(documents[d].doc.fvos)} :
                       d \in 1..Len(documents)} :
        /\ documents[di[1]].doc.id = ft_id
        /\ documents[di[1]].doc.fvos[di[2]].place \in ReturnedIds}

FeatureIds == {documents[d].doc.id : d \in 1..Len(documents)}

\* C8: after get_feature_data the counter of each feature identifier is the
\* number of observations processed for it over all places, each counted
\* once, also when two documents share the identifier; column_headings
\* emits that number as "count".
CountInvariant ==
    /\ pc \in {"column_headings", "write"} =>
          \A ft \in FeatureIds :
              Get(f_names_count, ft, 0) = Cardinality(Contributing(ft))
    /\ pc = "write" =>
          \A i \in 2..Len(column_headings) : \A ft \in FeatureIds :
              ft \in DOMAIN column_headings[i] =>
                  column_headings[i]["count"] = Cardinality(Contributing(ft))

\* three observations counted for a feature identifier that two documents
\* share, with one value label left at the place
CountInvariantWitness ==
    /\ pc = "write"
    /\ \E ft \in FeatureIds :
          /\ f_names_count[ft] = 3
          /\ Cardinality({d \in 1..Len(documents) : documents[d].doc.id = ft}) = 2
          /\ \E f \in Returned :
                ft \in DOMAIN f.properties /\ Cardinality(DOMAIN f.properties[ft]) = 1

\* the features get_geo_info returned, before get_feature_data adds to them
Skeletons == get_geo_info(SomeOrder(places), geo_doc).features

\* a document without its observations that are not done; their placeName
\* elements still count as the document naming the place
DoneOnly(file) ==
    LET doc  == file.doc
        done == SelectSeq(doc.fvos, LAMBDA o : o.status = "done")
    IN  [file EXCEPT !.doc =
            [doc EXCEPT !.fvos = done, !.other_places = Mentions(doc)]]

\* C1: an observation whose status is not "done" adds no entry to the
\* properties of its place and nothing to the counter of its feature: what
\* get_feature_data returns is what it returns without these observations.
StatusFilter ==
    pc = "column_headings" =>
        \E r \in {get_feature_data(Skeletons,
                                   [d \in 1..Len(documents) |-> DoneOnly(documents[d])],
                                   Tables)} :
            /\ geo_features = r.features
            /\ f_names_count = r.f_names_count

\* the observations of doc at place_id with value label name
Observations(doc, place_id, name) ==
    SelectSeq(doc.fvos,
              LAMBDA o : o.place = place_id /\ ValueLabel(o, doc).name = name)

\* the entry of one observation, resolved on its own
Resolved(o, doc) == ProcessFvo(EmptyDict, o, doc, Tables).fv_dict[ValueLabel(o, doc).name]

\* the entries the data stored under a value label holds: the code stores
\* one record
Entries(stored) == <<stored>>

ValueLabels == {Items[k] : k \in DOMAIN Items} \cup {"Missing"}

\* C2: the data stored under a value label of a feature at a place holds one
\* entry for each observation of that place, feature and label, each with
\* what that observation alone resolves to.  (Stated for the feature
\* identifiers that one document carries.)
PerObservationEntries ==
    pc = "column_headings" =>
        \A f \in Returned : \A d \in 1..Len(documents) :
            LET doc == documents[d].doc
            IN  (/\ f.id \in Mentions(doc)
                 /\ \A e \in 1..Len(documents) : documents[e].doc.id = doc.id => e = d)
                => \A name \in ValueLabels :
                      LET obs == Observations(doc, f.id, name)
                      IN  IF obs = <<>> THEN name \notin DOMAIN f.properties[doc.id]
                          ELSE /\ name \in DOMAIN f.properties[doc.id]
                               /\ Entries(f.properties[doc.id][name])
                                      = [i \in 1..Len(obs) |-> Resolved(obs[i], doc)]

(***************************************************************************)
(* The bibliographic references of one observation.                        *)
(***************************************************************************)
\* the corresp values of a bibl element ("" when the attribute is absent)
RefPool ==
    {<<>>,
     ZotPrefix \o <<"k", "1">>,
     ZotPrefix \o <<"k", "2">>,
     ZotPrefix \o <<"k", "9">>,
     ZotPrefix,
     SrcPrefix \o <<"s">>,
     SrcPrefix,
     <<"f", "o", "o", ":", "1">>,
     <<"k", "1">>,
     ZotPrefix \o ZotPrefix \o <<"k", "1">>,
     SrcPrefix \o SrcPrefix \o <<"s">>}

InitSrc ==
    \E refs \in SeqsUpTo(RefPool, MaxRefs) :
        InitAt("feature_data",
               <<File(<<"f", "1">>,
                      Doc("A", "Title A", <<[BaseFvo EXCEPT !.bibl = refs]>>, {}))>>,
               GoodProfiles, MainGeoDoc,
               SkeletonsOf(<<File(<<"f", "1">>, Doc("A", "Title A", <<BaseFvo>>, {}))>>,
                           MainGeoDoc))

SpecSrc == InitSrc /\ [][GetFeatureData]_vars

\* what follows the four characters of the prefix
AfterPrefix(ref) == From(ref, 5)

\* the sources the policy gives a reference
PolicySources(ref) ==
    IF StartsWith(ref, ZotPrefix) /\ AfterPrefix(ref) \in DOMAIN bibl_data
    THEN (AfterPrefix(ref) :> bibl_data[AfterPrefix(ref)])
    ELSE IF StartsWith(ref, SrcPrefix)
    THEN (AfterPrefix(ref) :>
             [short_cit |-> AfterPrefix(ref), link |-> "",
              decade_dc |-> ("2020s" :> "high")])
    ELSE EmptyDict

\* whether the policy gives a warning for a reference
PolicyWarns(ref) ==
    \/ StartsWith(ref, ZotPrefix) /\ AfterPrefix(ref) \notin DOMAIN bibl_data
    \/ ~StartsWith(ref, ZotPrefix) /\ ~StartsWith(ref, SrcPrefix)

SourceWarnings ==
    SelectSeq(warnings,
              LAMBDA w : w.msg \in {"Missing source data for",
                                    "Unknown source reference format:"})

\* C7: an observation with one bibliographic reference: "zot:<id>" with <id>
\* in the bibliography table gives the record of the table, "src:<id>" the
\* placeholder with short_cit <id>; "zot:<id>" with <id> not in the table and
\* any other prefix give a warning and no source.
SourcePrefixPolicy ==
    pc = "column_headings" =>
        \A ref \in RefPool \ {<<>>} :
            documents[1].doc.fvos[1].bibl = <<ref>> =>
                /\ geo_features[1].properties["A"]["L1"]["sources"] = PolicySources(ref)
                /\ Len(SourceWarnings) = IF PolicyWarns(ref) THEN 1 ELSE 0

(***************************************************************************)
(* The runs of main.                                                       *)
(***************************************************************************)
\* the orders a sequence can be put in
Perms(seq) == {[i \in 1..Len(seq) |-> seq[o[i]]] : o \in Orders(1..Len(seq))}

\* the properties of each returned place, by place identifier
PropertiesById(features) ==
    [id \in {features[i].id : i \in 1..Len(features)} |->
        (CHOOSE f \in {features[i] : i \in 1..Len(features)} : f.id = id).properties]

\* C3: for the documents of the run in any order and the places in any
\* order, get_feature_data gives each place the same properties and each
\* feature the same count, and the column headings are the same list.
OrderIndependence ==
    pc = "write" =>
        \A docs \in Perms(documents) : \A skeletons \in Perms(Skeletons) :
            \E r \in {get_feature_data(skeletons, docs, Tables)} :
            \E fp \in {first_pass_features(docs)} :
                /\ r.exc = "none"
                /\ PropertiesById(r.features) = PropertiesById(geo_features)
                /\ r.f_names_count = f_names_count
                /\ ColumnHeadingsOf(fp.ft_name_dict, r.f_names_count,
                                    fp.parent_categories).column_headings
                       = column_headings

\* the feature identifier of an entry of column_headings
HeadingKey(h) == CHOOSE k \in DOMAIN h : k \notin {"count", "category"}

HeadingKeys(headings) == [i \in 1..(Len(headings) - 1) |-> HeadingKey(headings[i + 1])]

\* C4: column_headings starts with {name: "Name"}, has one entry for each
\* feature of the corpus behind it, in descending order of count, and the
\* order of the features is the same for every order of the documents.
ColumnOrdering ==
    pc = "write" =>
        /\ column_headings[1] = NameHeading
        /\ Len(column_headings) = 1 + Cardinality(FeatureIds)
        /\ {HeadingKey(column_headings[i]) : i \in 2..Len(column_headings)} = FeatureIds
        /\ \A i, j \in 2..Len(column_headings) :
              i < j => column_headings[i]["count"] >= column_headings[j]["count"]
        /\ \A docs \in Perms(documents) :
              \E fp \in {first_pass_features(docs)} :
                  HeadingKeys(ColumnHeadingsOf(fp.ft_name_dict, f_names_count,
                                               fp.parent_categories).column_headings)
                      = HeadingKeys(column_headings)

\* C6: once the documents are loaded, no exception ends main before the
\* output document is written.
NoFatalError == exception = "none"

\* the names of the files of a listing that do not load
BrokenNames(listing) ==
    {listing[i].name : i \in {j \in 1..Len(listing) :
                                 listing[j].is_file /\ listing[j].loads # "ok"}}

\* the files of a listing that load, in listing order
Loaded(listing) ==
    SelectSeq(listing, LAMBDA e : e.is_file /\ e.loads = "ok"
                                   /\ ~Contains(e.name, TemplateWord))

\* C9: a file that does not load does not stop the loading of the others,
\* and at the end of main an error is reported for every file of the
\* feature directory and of the profile directory that did not load.
LoadErrorsReported ==
    /\ pc \notin {"process_features", "process_profiles"} =>
          /\ [i \in 1..Len(documents) |-> documents[i].doc]
                 = [i \in 1..Len(Loaded(features_dir)) |-> Loaded(features_dir)[i].doc]
          /\ Len(profiles) = Len(Loaded(profiles_dir))
    /\ pc = "done" =>
          \A name \in BrokenNames(features_dir) \cup BrokenNames(profiles_dir) :
              \E e \in reported : e.file_name = name

(***************************************************************************)
(* The value references of the observations of one document.               *)
(***************************************************************************)
\* the ref of a name element: of an item, empty, of no item, without "#"
ValueRefs == {<<"#", "v", "1">>, <<>>, <<"#", "v", "9">>, <<"v", "1">>}

\* observations at place g:a with these references, each from either source
LabelFvos ==
    {[BaseFvo EXCEPT !.ref = <<ref>>, !.bibl = <<bibl>>] :
        ref \in ValueRefs, bibl \in {ZotPrefix \o <<"k", "1">>, SrcPrefix \o <<"s">>}}

InitLabel ==
    \E fvos \in SeqsUpTo(LabelFvos, MaxFvos) \ {<<>>} :
        InitAt("feature_data",
               <<File(<<"f", "1">>, Doc("A", "Title A", fvos, {}))>>,
               GoodProfiles, MainGeoDoc,
               SkeletonsOf(<<File(<<"f", "1">>, Doc("A", "Title A", <<BaseFvo>>, {}))>>,
                           MainGeoDoc))

SpecLabel == InitLabel /\ [][GetFeatureData]_vars

\* the reference is empty, or no item of the document has it as "#" and
\* its xml:id
Unresolvable(o, doc) ==
    \/ o.ref[1] = <<>>
    \/ \A k \in DOMAIN doc.items : o.ref[1] \notin {k, <<"#">> \o k}

\* the key of sources that the one bibl of an observation of LabelFvos gives
SourceKey(o) == From(o.bibl[1], 5)

\* C11: an observation whose value reference is empty or names no item with
\* a label is stored under the label "Missing" (its source is in the record
\* of that label) and is counted; the run goes on.
LabelFallback ==
    pc # "feature_data" =>
        /\ pc = "column_headings"
        /\ \E doc \in {documents[1].doc} :
              /\ f_names_count["A"] = Len(doc.fvos)
              /\ \A i \in 1..Len(doc.fvos) :
                    Unresolvable(doc.fvos[i], doc) =>
                        /\ "Missing" \in DOMAIN geo_features[1].properties["A"]
                        /\ SourceKey(doc.fvos[i]) \in
                              DOMAIN geo_features[1].properties["A"]["Missing"]["sources"]

\* an observation with an empty reference and one whose reference names no
\* item, from different sources, both under "Missing", beside no other label
LabelFallbackWitness ==
    /\ pc = "column_headings"
    /\ \E doc \in {documents[1].doc} :
          /\ Len(doc.fvos) = 2
          /\ doc.fvos[1].ref = << <<>> >>
          /\ doc.fvos[2].ref = << <<"#", "v", "9">> >>
          /\ doc.fvos[1].bibl # doc.fvos[2].bibl
    /\ DOMAIN geo_features[1].properties["A"] = {"Missing"}
    /\ f_names_count["A"] = 2

\* what the first of the references does when it is the only one
FirstAlone(refs) ==
    SourceLoop([sources |-> EmptyDict, warnings |-> <<>>], <<refs[1]>>, refs, bibl_data)

\* C12: an observation with more than one bibl child gets the sources its
\* first reference gives and no other, and a warning is printed beside the
\* warnings of the first reference.
FirstSourceOnly ==
    pc = "column_headings" =>
        \E refs \in {documents[1].doc.fvos[1].bibl} :
            Len(refs) > 1 =>
                /\ geo_features[1].properties["A"]["L1"]["sources"]
                       = FirstAlone(refs).sources
                /\ Len(warnings) > Len(FirstAlone(refs).warnings)

\* C13: after get_feature_data the properties of a place have a feature
\* identifier as key only with at least one value label under it; a document
\* that names the place without an observation for it adds no key.
NoEmptyFeatureKeys ==
    pc = "column_headings" =>
        \A f \in Returned : \A k \in DOMAIN f.properties \ {"name"} :
            DOMAIN f.properties[k] # {}

(***************************************************************************)
(* The personGrp children of one observation.                              *)
(***************************************************************************)
\* role and corresp of a personGrp child: a group of the table, a group
\* that is not in it, a reference without "pgr:", and no corresp
PersPool ==
    [role : {"r1", "r2", "firstLanguage"},
     corresp : {PgrPrefix \o <<"p", "1">>, PgrPrefix \o <<"p", "9">>, <<"p", "1">>}]
    \cup {[role |-> "r1", corresp |-> <<>>]}

InitPers ==
    \E xs \in SeqsUpTo(PersPool, MaxPers) :
        InitAt("feature_data",
               <<File(<<"f", "1">>,
                      Doc("A", "Title A", <<[BaseFvo EXCEPT !.pers = xs]>>, {}))>>,
               GoodProfiles, MainGeoDoc,
               SkeletonsOf(<<File(<<"f", "1">>, Doc("A", "Title A", <<BaseFvo>>, {}))>>,
                           MainGeoDoc))

SpecPers == InitPers /\ [][GetFeatureData]_vars

\* (role, id) of the reference of x is in the person-group table
InTable(x) ==
    /\ x.role \in DOMAIN pers_data
    /\ From(x.corresp, 5) \in DOMAIN pers_data[x.role]

\* the list the policy gives a role: the name of the table for "pgr:<id>"
\* in the table, nothing for "pgr:<id>" that is not in it, the empty name
\* for another reference
RECURSIVE PolicyNames(_, _)
PolicyNames(xs, role) ==
    IF xs = <<>> THEN <<>>
    ELSE At(PolicyNames(Tail(xs), role), LAMBDA rest :
            LET x == Head(xs)
            IN  IF x.role # role \/ x.corresp = <<>> THEN rest
                ELSE IF ~StartsWith(x.corresp, PgrPrefix) THEN << << <<>> >> >> \o rest
                ELSE IF InTable(x)
                THEN << <<pers_data[x.role][From(x.corresp, 5)]>> >> \o rest
                ELSE rest)

\* the children the policy gives a warning for
PolicyPersWarned(xs) ==
    SelectSeq(xs, LAMBDA x :
        /\ x.role # "firstLanguage" /\ x.corresp # <<>>
        /\ (StartsWith(x.corresp, PgrPrefix) => ~InTable(x)))

\* C14: for each personGrp child of an observation with a role and a
\* reference, "pgr:<id>" with (role, id) in the table appends the name to
\* the list of the role; with (role, id) not in the table a warning is
\* printed, the role is a key and nothing is appended; a reference without
\* "pgr:" gives a warning and appends the empty name.
PersonGroupResolution ==
    pc = "column_headings" =>
        \E xs \in {documents[1].doc.fvos[1].pers} :
        \E entry \in {geo_features[1].properties["A"]["L1"]} :
            /\ \A role \in {"r1", "r2"} :
                  IF \E i \in 1..Len(xs) : xs[i].role = role /\ xs[i].corresp # <<>>
                  THEN role \in DOMAIN entry /\ entry[role] = PolicyNames(xs, role)
                  ELSE role \notin DOMAIN entry
            /\ Len(warnings) = Len(PolicyPersWarned(xs))

(***************************************************************************)
(* get_pers_data and the observations that refer to its table.             *)
(***************************************************************************)
Group(id, role) == [id |-> <<"p", id>>, role |-> role, names |-> << <<"P", id>> >>]

\* the personGrp elements of the person-group document; one has no name
GroupPool ==
    {Group(id, role) : id \in {"1", "2"}, role \in {"r1", "firstLanguage", "firstlanguage"}}
    \cup {[id |-> <<"p", "3">>, role |-> "r1", names |-> <<>>]}

\* one listPerson with up to MaxGroups groups, or two with a group each
PersDocs ==
    {<<gs>> : gs \in SeqsUpTo(GroupPool, MaxGroups)}
    \cup {<< <<g>>, <<h>> >> : g \in GroupPool, h \in GroupPool}

\* an observation with a first language and a group of role r1
TableFvo ==
    [BaseFvo EXCEPT !.pers = <<[role |-> "firstLanguage", corresp |-> <<"a", "r">>],
                               [role |-> "r1", corresp |-> PgrPrefix \o <<"p", "1">>]>>]

InitTable ==
    /\ pc = "pers_data"
    /\ pers_doc \in PersDocs
    /\ pers_data = EmptyDict
    /\ features_dir = <<File(<<"f", "1">>, Doc("A", "Title A", <<TableFvo>>, {}))>>
    /\ profiles_dir = GoodProfiles
    /\ geo_doc = MainGeoDoc
    /\ bibl_data = BiblTable
    /\ \E b \in {BeforeGeoInfo(features_dir, GoodProfiles)} :
          /\ documents = b.documents
          /\ profiles = b.profiles
          /\ processing_errors = b.processing_errors
          /\ variety_title = b.variety_title
          /\ places = b.places
          /\ ft_name_dict = b.ft_name_dict
          /\ parent_categories = b.parent_categories
          /\ warnings = b.warnings
    /\ geo_features = SkeletonsOf(features_dir, MainGeoDoc)
    /\ f_names_count = EmptyDict
    /\ column_headings = <<>>
    /\ geojson = NotWritten
    /\ reported = {}
    /\ exception = "none"

NextTable ==
    \/ GetPersData
    \/ GetFeatureData

SpecTable == InitTable /\ [][NextTable]_vars

\* the personGrp elements of the person-group document
Groups == UNION {{pers_doc[l][i] : i \in 1..Len(pers_doc[l])} : l \in 1..Len(pers_doc)}

\* C15: the table get_pers_data builds has every person group of the
\* document under its role and identifier, except the groups of role
\* "firstLanguage", which are not in it; an observation's personGrp of role
\* "firstLanguage" gets its reference as the name.
PersonGroupTable ==
    /\ pc \in {"feature_data", "column_headings"} =>
          /\ \A g \in Groups :
                g.role # "firstLanguage" =>
                    /\ g.role \in DOMAIN pers_data
                    /\ g.id \in DOMAIN pers_data[g.role]
          /\ "firstLanguage" \notin DOMAIN pers_data
    /\ pc = "column_headings" =>
          geo_features[1].properties["A"]["L1"]["firstLanguage"] = << <<<<"a", "r">>>> >>
====
